---- MODULE Spec2Model ----
(***************************************************************************)
(* Model of LiquidTemplateValidator                                        *)
(* (src/api/template_management/liquid_validator.py).                      *)
(*                                                                         *)
(* A template text is a sequence of items.  An item is either the newline  *)
(* NL or a token: one lexical fragment that the validator's regular        *)
(* expressions recognise as a unit.  Every token stands for one concrete   *)
(* source fragment:                                                        *)
(*                                                                         *)
(*   k = "open"     a = tag      {% if x %}  {% for i in xs %} ...         *)
(*   k = "close"    a = endtag   {% endif %}  {% endfor %} ...             *)
(*   k = "mid"      a = else/elseif   {% else %}  {% elseif x %}           *)
(*   k = "when"                  {% when 1 %}                              *)
(*   k = "include"  p = path     {% include 'path' %}                      *)
(*   k = "dinclude" p = path     {%- include 'path' %}                     *)
(*   k = "evaluate" a = resource {% evaluate v using 'resource' %}         *)
(*   k = "comment" / "endcomment"   {% comment %}  {% endcomment %}        *)
(*   k = "break"    a = break/continue   {% break %}  {% continue %}       *)
(*   k = "text"     a = word     the word itself: hello, resourceType,     *)
(*                               system( , {{ }} , ' (one single quote)    *)
(*   k = "bom"                   the byte order mark U+FEFF                *)
(*   k = "surrogate"             one lone UTF-16 surrogate (U+D800)        *)
(*   k = "pad"      p = <<n>>    the letter x, n times (n >= 1)            *)
(*   k = "nls"      p = <<n>>    n line breaks (n >= 1)                    *)
(*                                                                         *)
(* The last two stand for text too long to write item by item; they occur  *)
(* only in the texts the size pass is run on alone.                        *)
(*                                                                         *)
(* Diagnostics are records, one per message format of the source.          *)
(***************************************************************************)
EXTENDS Integers, Sequences, FiniteSets, TLC

VARIABLES
    cfg,            \* constructor arguments kept on the instance
    errors,         \* self.errors
    warnings,       \* self.warnings
    include_graph,  \* self.include_graph["ROOT"] (absent key = empty set)
    text,           \* template_text of the running call
    env,            \* the collaborators during the running call: what they
                    \* answer, the keys the oracle has been asked for, and
                    \* how often the Liquid parser has been called
    pc,             \* position of the running call
    result,         \* value returned (or exception raised) by the call
    stack,          \* _validate_tags: stack
    case_stack,     \* _validate_tags: case_stack
    line_number,    \* _validate_tags: line_number of the enumerate loop
    todo,           \* _validate_tags: matches of the current line not yet handled
    kept,           \* the dict of the previous call, still held by the caller
    other           \* a second thread's call on the same instance

vars == <<cfg, errors, warnings, include_graph, text, env, pc, result,
          stack, case_stack, line_number, todo, kept, other>>

----------------------------------------------------------------------------
(* Items, tokens and paths *)

Tok(k, a) == [k |-> k, a |-> a, p |-> <<>>]

NL == Tok("nl", "")

\* A path is a sequence of symbols, each a piece of the string: "/", "_",
\* ".liquid", or a word that holds none of these.
Plain(stem) == <<stem>>

Inc(k, path) == [k |-> k, a |-> "", p |-> path]

\* Tag mappings
OPEN_TAGS ==
    [t \in {"if", "unless", "for", "case", "capture", "tablerow", "comment"} |->
        CASE t = "if" -> "endif"
          [] t = "unless" -> "endunless"
          [] t = "for" -> "endfor"
          [] t = "case" -> "endcase"
          [] t = "capture" -> "endcapture"
          [] t = "tablerow" -> "endtablerow"
          [] t = "comment" -> "endcomment"]

MAX_NESTING_DEPTH == 10

\* text.splitlines()
RECURSIVE SplitLines(_)
SplitLines(t) ==
    IF t = <<>> THEN <<>>
    ELSE LET brk == {i \in 1..Len(t) : t[i] = NL}
         IN  IF brk = {} THEN <<t>>
             ELSE LET i == CHOOSE j \in brk : \A h \in brk : j <= h
                  IN  <<SubSeq(t, 1, i - 1)>> \o SplitLines(SubSeq(t, i + 1, Len(t)))

\* One diagnostic string of the source, by message format.
Diag(kind, a, m, b, n, c) ==
    [kind |-> kind, a |-> a, m |-> m, b |-> b, n |-> n, c |-> c, p |-> <<>>, q |-> <<>>]

----------------------------------------------------------------------------
(* 2. TAG VALIDATION: _validate_tags *)

BLOCK_START_REGEX(tok) ==
    tok.k = "open" /\ tok.a \in {"if", "unless", "for", "case", "capture", "tablerow"}

BLOCK_END_REGEX(tok) ==
    tok.k = "close" /\ tok.a \in {"endif", "endunless", "endfor", "endcase",
                                  "endcapture", "endtablerow"}

ELSIF_ELSE_REGEX(tok) == tok.k = "mid" /\ tok.a \in {"elseif", "else"}

WHEN_REGEX(tok) == tok.k = "when"

\* The order in which one line's matches are handled: the four finditer loops.
LineMatches(line) ==
    SelectSeq(line, BLOCK_START_REGEX) \o SelectSeq(line, WHEN_REGEX)
        \o SelectSeq(line, ELSIF_ELSE_REGEX) \o SelectSeq(line, BLOCK_END_REGEX)

\* State of the pass: s = [stack, case_stack, errors, warnings].
Frame(tag, line) == [tag |-> tag, line |-> line]

DepthCheck(s, n) ==
    IF Len(s.stack) > MAX_NESTING_DEPTH
    THEN [s EXCEPT !.warnings = Append(@, Diag("DeepNesting", "", n, "", Len(s.stack), ""))]
    ELSE s

OnStart(s, tok, n) ==
    IF tok.a \in DOMAIN OPEN_TAGS
    THEN [s EXCEPT !.stack = Append(@, Frame(tok.a, n)),
                   !.case_stack = IF tok.a = "case" THEN Append(@, n) ELSE @]
    ELSE s

OnWhenNeedsCaseOnTop(s, tok, n) ==
    IF s.stack = <<>> \/ s.stack[Len(s.stack)].tag # "case"
    THEN [s EXCEPT !.errors = Append(@, Diag("WhenOutsideCase", "when", n, "", 0, ""))]
    ELSE s

OnWhen(s, tok, n) ==
    IF s.case_stack = <<>>
    THEN [s EXCEPT !.errors = Append(@, Diag("WhenOutsideCase", "when", n, "", 0, ""))]
    ELSE s

OnMidEmptyOnly(s, tok, n) ==
    IF s.stack = <<>>
    THEN [s EXCEPT !.errors = Append(@, Diag("WithoutIf", tok.a, n, "", 0, ""))]
    ELSE s

OnMid(s, tok, n) ==
    IF s.stack = <<>> \/ s.stack[Len(s.stack)].tag \notin {"if", "unless"}
    THEN [s EXCEPT !.errors = Append(@, Diag("WithoutIf", tok.a, n, "", 0, ""))]
    ELSE s

Front(q) == SubSeq(q, 1, Len(q) - 1)

OnEndKeepsMismatched(s, tok, n) ==
    IF s.stack = <<>>
    THEN [s EXCEPT !.errors = Append(@, Diag("Unexpected", tok.a, n, "", 0, ""))]
    ELSE LET top == s.stack[Len(s.stack)]
             expected == OPEN_TAGS[top.tag]
         IN  IF tok.a # expected
             THEN [s EXCEPT !.errors = Append(@, Diag("Mismatched", top.tag, top.line,
                                                      tok.a, n, expected))]
             ELSE [s EXCEPT !.stack = Front(@),
                            !.case_stack = IF tok.a = "endcase" /\ @ # <<>>
                                           THEN Front(@) ELSE @]

OnEndStrayPopsCase(s, tok, n) ==
    IF s.stack = <<>>
    THEN [s EXCEPT !.errors = Append(@, Diag("Unexpected", tok.a, n, "", 0, "")),
                   !.case_stack = IF tok.a = "endcase" /\ @ # <<>> THEN Front(@) ELSE @]
    ELSE LET top == s.stack[Len(s.stack)]
             expected == OPEN_TAGS[top.tag]
         IN  [s EXCEPT
                !.stack = Front(@),
                !.errors = IF tok.a # expected
                           THEN Append(@, Diag("Mismatched", top.tag, top.line,
                                               tok.a, n, expected))
                           ELSE @,
                !.case_stack = IF tok.a = "endcase" /\ @ # <<>> THEN Front(@) ELSE @]

OnEnd(s, tok, n) ==
    IF s.stack = <<>>
    THEN [s EXCEPT !.errors = Append(@, Diag("Unexpected", tok.a, n, "", 0, ""))]
    ELSE LET top == s.stack[Len(s.stack)]
             expected == OPEN_TAGS[top.tag]
         IN  [s EXCEPT
                !.stack = Front(@),
                !.errors = IF tok.a # expected
                           THEN Append(@, Diag("Mismatched", top.tag, top.line,
                                               tok.a, n, expected))
                           ELSE @,
                !.case_stack = IF tok.a = "endcase" /\ @ # <<>> THEN Front(@) ELSE @]

OnMatch(s, tok, n) ==
    CASE BLOCK_START_REGEX(tok) -> OnStart(s, tok, n)
      [] WHEN_REGEX(tok) -> OnWhen(s, tok, n)
      [] ELSIF_ELSE_REGEX(tok) -> OnMid(s, tok, n)
      [] BLOCK_END_REGEX(tok) -> OnEnd(s, tok, n)

UnclosedInnermostOnly(stk) ==
    IF stk = <<>> THEN <<>>
    ELSE <<Diag("Unclosed", stk[Len(stk)].tag, stk[Len(stk)].line,
                OPEN_TAGS[stk[Len(stk)].tag], 0, "")>>

\* The loop over the frames left on the stack, bottom first.
Unclosed(stk) ==
    [i \in 1..Len(stk) |->
        Diag("Unclosed", stk[i].tag, stk[i].line, OPEN_TAGS[stk[i].tag], 0, "")]

RECURSIVE TagMatches(_, _, _)
TagMatches(s, ms, n) ==
    IF ms = <<>> THEN s ELSE TagMatches(OnMatch(s, Head(ms), n), Tail(ms), n)

RECURSIVE TagLines(_, _, _)
TagLines(s, lines, n) ==
    IF n > Len(lines) THEN s
    ELSE TagLines(TagMatches(DepthCheck(s, n), LineMatches(lines[n]), n), lines, n + 1)

\* The whole pass.  v = [errors, warnings, include_graph, exc]: the instance's
\* fields, and the exception a pass lets escape ("" when it returns).
ValidateTags(t, v) ==
    LET s0 == [stack |-> <<>>, case_stack |-> <<>>,
               errors |-> v.errors, warnings |-> v.warnings]
        s1 == TagLines(s0, SplitLines(t), 1)
    IN  [v EXCEPT !.errors = s1.errors \o Unclosed(s1.stack),
                  !.warnings = s1.warnings]

----------------------------------------------------------------------------
(* 14. FHIR-SPECIFIC VALIDATION: _validate_fhir_specific, *)
(*     _validate_fhir_dependencies                        *)

\* f'{{% {tag}' in text, for the tags of FHIR_CUSTOM_TAGS
CustomTagLiteral(tok) == tok.k = "evaluate"

\* 'resourceType' in text
ResourceTypeLiteral(tok) == tok.k = "text" /\ tok.a = "resourceType"

ValidateFhirSpecific(t, v) ==
    LET w1 == IF SelectSeq(t, CustomTagLiteral) # <<>>
              THEN Append(v.warnings, Diag("CustomTags", "evaluate", 0, "", 0, ""))
              ELSE v.warnings
        w2 == IF SelectSeq(t, ResourceTypeLiteral) = <<>>
              THEN Append(w1, Diag("NoResourceType", "", 0, "", 0, ""))
              ELSE w1
    IN  [v EXCEPT !.warnings = w2]

\* re.search(r'{%\s*evaluate\s+', ...)
EvaluateSearch(tok) == tok.k = "evaluate"

\* re.search(r'{%\s*include\s+', ...): "{%" and "include" with only white space
\* between them, so the form "{%- include" is no match.
IncludeSearch(tok) == tok.k = "include"

\* evaluate_pattern.search(line)
EvaluatePattern(tok) == tok.k = "evaluate"

\* ID_ONLY_PATTERNS, searched in the whole line
IdOnlyPattern(tok) ==
    tok.k = "evaluate" /\ tok.a \in {"ID/Bundle", "ID/Patient' type: 'First", "ID/Encounter"}

\* 'comment' in check_line
CommentWord(tok) == tok.k \in {"comment", "endcomment"}

Max(a, b) == IF a >= b THEN a ELSE b

Min(a, b) == IF a <= b THEN a ELSE b

\* The window loop for the evaluate of line line_num: check_idx ranges over
\* range(search_start, search_end), an index into the 0-based list lines.
FoundInclude(lines, line_num) ==
    LET search_start == Max(0, line_num - 21)
        search_end == Min(Len(lines), line_num + 19)
    IN  \E check_idx \in search_start..(search_end - 1) :
            /\ check_idx # line_num - 1
            /\ lines[check_idx + 1] # <<>>
            /\ SelectSeq(lines[check_idx + 1], CommentWord) = <<>>
            /\ SelectSeq(lines[check_idx + 1], IncludeSearch) # <<>>

\* The body of the loop over the lines, for one line.
EvaluateLine(lines, line_num, warns) ==
    LET line == lines[line_num]
    IN  IF SelectSeq(line, EvaluatePattern) = <<>> THEN warns
        ELSE IF SelectSeq(line, IdOnlyPattern) # <<>> THEN warns
        ELSE IF FoundInclude(lines, line_num) THEN warns
        ELSE LET m == SelectSeq(line, EvaluatePattern)[1]
             IN  Append(warns, Diag("EvaluateNoInclude", "v", line_num, m.a, 0, ""))

RECURSIVE EvaluateLines(_, _, _)
EvaluateLines(lines, line_num, warns) ==
    IF line_num > Len(lines) THEN warns
    ELSE EvaluateLines(lines, line_num + 1, EvaluateLine(lines, line_num, warns))

ValidateFhirDependencies(t, v) ==
    IF SelectSeq(t, EvaluateSearch) # <<>> /\ SelectSeq(t, IncludeSearch) = <<>>
    THEN [v EXCEPT !.errors = Append(@, Diag("EvaluateWithoutInclude", "", 0, "", 0, ""))]
    ELSE [v EXCEPT !.warnings = EvaluateLines(SplitLines(t), 1, @)]

----------------------------------------------------------------------------
(* 17./18. ENCODING, SIZE, EMPTY CONTENT *)

MAX_TEMPLATE_SIZE == 1048576

MAX_LINE_COUNT == 10000

Surrogate(tok) == tok.k = "surrogate"

RECURSIVE PathLen(_)
PathLen(path) ==
    IF path = <<>> THEN 0 ELSE Len(Head(path)) + PathLen(Tail(path))

\* len(fragment.encode('utf-8')) of the fragment a token stands for
Bytes(tok) ==
    CASE tok.k = "nl" -> 1
      [] tok.k = "open" -> Len(tok.a) + 8
      [] tok.k = "close" -> Len(tok.a) + 6
      [] tok.k = "mid" -> IF tok.a = "else" THEN 10 ELSE 14
      [] tok.k = "when" -> 12
      [] tok.k = "include" -> 16 + PathLen(tok.p)
      [] tok.k = "dinclude" -> 17 + PathLen(tok.p)
      [] tok.k = "evaluate" -> 25 + Len(tok.a)
      [] tok.k = "comment" -> 13
      [] tok.k = "endcomment" -> 16
      [] tok.k = "break" -> Len(tok.a) + 6
      [] tok.k = "text" -> Len(tok.a)
      [] tok.k = "bom" -> 3
      [] tok.k \in {"pad", "nls"} -> tok.p[1]

RECURSIVE ByteLen(_)
ByteLen(t) == IF t = <<>> THEN 0 ELSE Bytes(Head(t)) + ByteLen(Tail(t))

\* The line breaks in the fragment a token stands for
Breaks(tok) ==
    CASE tok.k = "nl" -> 1
      [] tok.k = "nls" -> tok.p[1]
      [] OTHER -> 0

RECURSIVE BreakCount(_)
BreakCount(t) == IF t = <<>> THEN 0 ELSE Breaks(Head(t)) + BreakCount(Tail(t))

\* len(text.splitlines()): a line for every line break, and one for what follows
\* the last of them
LineCount(t) ==
    BreakCount(t) + (IF t # <<>> /\ Breaks(t[Len(t)]) = 0 THEN 1 ELSE 0)

ValidateEncoding(t, v) ==
    LET e1 == IF SelectSeq(t, Surrogate) # <<>>
              THEN Append(v.errors, Diag("Utf8Error", "", 0, "", 0, ""))
              ELSE v.errors
        w1 == IF t # <<>> /\ t[1].k = "bom"
              THEN Append(v.warnings, Diag("Bom", "", 0, "", 0, ""))
              ELSE v.warnings
    IN  [v EXCEPT !.errors = e1, !.warnings = w1]

ValidateTemplateSizeAtLimit(t, v) ==
    IF SelectSeq(t, Surrogate) # <<>> THEN [v EXCEPT !.exc = "UnicodeEncodeError"]
    ELSE LET size == ByteLen(t)
             line_count == LineCount(t)
             e1 == IF size >= MAX_TEMPLATE_SIZE
                   THEN Append(v.errors, Diag("SizeExceeded", "", size, "",
                                              MAX_TEMPLATE_SIZE, ""))
                   ELSE v.errors
             e2 == IF line_count >= MAX_LINE_COUNT
                   THEN Append(e1, Diag("LineCountExceeded", "", line_count, "",
                                        MAX_LINE_COUNT, ""))
                   ELSE e1
         IN  [v EXCEPT !.errors = e2]

ValidateTemplateSize(t, v) ==
    IF SelectSeq(t, Surrogate) # <<>> THEN [v EXCEPT !.exc = "UnicodeEncodeError"]
    ELSE LET size == ByteLen(t)
             line_count == LineCount(t)
             e1 == IF size > MAX_TEMPLATE_SIZE
                   THEN Append(v.errors, Diag("SizeExceeded", "", size, "",
                                              MAX_TEMPLATE_SIZE, ""))
                   ELSE v.errors
             e2 == IF line_count > MAX_LINE_COUNT
                   THEN Append(e1, Diag("LineCountExceeded", "", line_count, "",
                                        MAX_LINE_COUNT, ""))
                   ELSE e1
         IN  [v EXCEPT !.errors = e2]

ValidateEmptyContent(t, v) ==
    IF \A i \in 1..Len(t) : t[i] = NL
    THEN [v EXCEPT !.errors = Append(@, Diag("EmptyContent", "", 0, "", 0, ""))]
    ELSE v

----------------------------------------------------------------------------
(* 1. SYNTAX VALIDATION: _validate_syntax, _validate_tag_keywords *)

TagKinds ==
    {"open", "close", "mid", "when", "include", "dinclude", "evaluate",
     "comment", "endcomment", "break"}

\* text.count('{%'), text.count('%}'): one of each in every tag fragment
OpensTag(tok) == tok.k \in TagKinds
ClosesTag(tok) == tok.k \in TagKinds

\* text.count('{{'), text.count('}}')
OpensOutput(tok) == tok.k = "text" /\ tok.a = "{{ }}"
ClosesOutput(tok) == tok.k = "text" /\ tok.a = "{{ }}"

ValidateSyntaxAlwaysParses(t, parse, v) ==
    LET e1 == IF Len(SelectSeq(t, OpensTag)) # Len(SelectSeq(t, ClosesTag))
              THEN Append(v.errors, Diag("UnmatchedTags", "", Len(SelectSeq(t, OpensTag)), "",
                                         Len(SelectSeq(t, ClosesTag)), ""))
              ELSE v.errors
        e2 == IF Len(SelectSeq(t, OpensOutput)) # Len(SelectSeq(t, ClosesOutput))
              THEN Append(e1, Diag("UnmatchedOutput", "", Len(SelectSeq(t, OpensOutput)), "",
                                   Len(SelectSeq(t, ClosesOutput)), ""))
              ELSE e1
        has_fhir_tags == FALSE
        e3 == IF ~has_fhir_tags /\ parse = "error"
              THEN Append(e2, Diag("ParseError", "", 0, "", 0, ""))
              ELSE e2
    IN  [v EXCEPT !.errors = e3,
                  !.parsed = IF has_fhir_tags THEN @ ELSE @ + 1]

\* parse is what Environment().from_string(text) does: "ok", or an exception
\* whose message is an "error" or names something "unknown".
ValidateSyntax(t, parse, v) ==
    LET e1 == IF Len(SelectSeq(t, OpensTag)) # Len(SelectSeq(t, ClosesTag))
              THEN Append(v.errors, Diag("UnmatchedTags", "", Len(SelectSeq(t, OpensTag)), "",
                                         Len(SelectSeq(t, ClosesTag)), ""))
              ELSE v.errors
        e2 == IF Len(SelectSeq(t, OpensOutput)) # Len(SelectSeq(t, ClosesOutput))
              THEN Append(e1, Diag("UnmatchedOutput", "", Len(SelectSeq(t, OpensOutput)), "",
                                   Len(SelectSeq(t, ClosesOutput)), ""))
              ELSE e1
        has_fhir_tags == SelectSeq(t, CustomTagLiteral) # <<>>
        e3 == IF ~has_fhir_tags /\ parse = "error"
              THEN Append(e2, Diag("ParseError", "", 0, "", 0, ""))
              ELSE e2
    IN  [v EXCEPT !.errors = e3,
                  !.parsed = IF has_fhir_tags THEN @ ELSE @ + 1]

VALID_TAG_KEYWORDS ==
    {"assign", "capture", "case", "comment", "if", "unless", "elseif", "else",
     "for", "break", "continue", "tablerow", "when", "include", "render",
     "cycle", "increment", "decrement", "echo", "liquid", "raw", "endraw",
     "endif", "endunless", "endfor", "endcase", "endcapture", "endtablerow",
     "endcomment", "evaluate", "mergeDiff", "addSegment"}

\* match.group(2) of tag_pattern
FirstToken(tok) ==
    CASE tok.k \in {"open", "close", "mid", "break"} -> tok.a
      [] tok.k \in {"include", "dinclude"} -> "include"
      [] OTHER -> tok.k

IsTag(tok) == tok.k \in TagKinds

RECURSIVE KeywordErrors(_, _, _)
KeywordErrors(lines, n, errs) ==
    IF n > Len(lines) THEN errs
    ELSE LET bad == SelectSeq(lines[n], LAMBDA tok :
                        IsTag(tok) /\ FirstToken(tok) \notin VALID_TAG_KEYWORDS)
         IN  KeywordErrors(lines, n + 1,
                errs \o [i \in 1..Len(bad) |->
                            Diag("UnknownKeyword", FirstToken(bad[i]), n, "", 0, "")])

ValidateTagKeywords(t, v) ==
    [v EXCEPT !.errors = KeywordErrors(SplitLines(t), 1, @)]

----------------------------------------------------------------------------
(* 6. CONTROL FLOW, 9. COMMENTS, 16. PERFORMANCE *)

ForSearch(tok) == tok.k = "open" /\ tok.a = "for"
EndforSearch(tok) == tok.k = "close" /\ tok.a = "endfor"
BREAK_CONTINUE_REGEX(tok) == tok.k = "break" /\ tok.a \in {"break", "continue"}

\* depth is len(loop_stack)
RECURSIVE ControlFlowLines(_, _, _, _)
ControlFlowLines(lines, n, depth, errs) ==
    IF n > Len(lines) THEN errs
    ELSE LET d == IF SelectSeq(lines[n], ForSearch) # <<>> THEN depth + 1
                  ELSE IF SelectSeq(lines[n], EndforSearch) # <<>> /\ depth > 0 THEN depth - 1
                  ELSE depth
             e == IF SelectSeq(lines[n], BREAK_CONTINUE_REGEX) # <<>> /\ d = 0
                  THEN Append(errs, Diag("OutsideLoop", "", n, "", 0, ""))
                  ELSE errs
         IN  ControlFlowLines(lines, n + 1, d, e)

ValidateControlFlow(t, v) ==
    [v EXCEPT !.errors = ControlFlowLines(SplitLines(t), 1, 0, @)]

OpenComment(tok) == tok.k = "comment"
CloseComment(tok) == tok.k = "endcomment"

ValidateComments(t, v) ==
    IF Len(SelectSeq(t, OpenComment)) # Len(SelectSeq(t, CloseComment))
    THEN [v EXCEPT !.errors = Append(@, Diag("UnmatchedComments", "",
                        Len(SelectSeq(t, OpenComment)), "", Len(SelectSeq(t, CloseComment)), ""))]
    ELSE v

RECURSIVE MaxDepth(_, _, _, _)
MaxDepth(lines, n, current_depth, max_depth) ==
    IF n > Len(lines) THEN max_depth
    ELSE LET up == current_depth + Len(SelectSeq(lines[n], BLOCK_START_REGEX))
         IN  MaxDepth(lines, n + 1, up - Len(SelectSeq(lines[n], BLOCK_END_REGEX)),
                      Max(max_depth, up))

ValidatePerformance(t, v) ==
    LET max_depth == MaxDepth(SplitLines(t), 1, 0, 0)
    IN  IF max_depth > MAX_NESTING_DEPTH
        THEN [v EXCEPT !.warnings = Append(@, Diag("DeepNestingLevels", "", max_depth,
                                                  "", MAX_NESTING_DEPTH, ""))]
        ELSE v

----------------------------------------------------------------------------
(* 15. SECURITY, 8. STRINGS, 13. OUTPUT, and the passes that find nothing in *)
(* the fragments the tokens stand for                                        *)

\* re.search(pattern, text, re.IGNORECASE) for the patterns of DANGEROUS_PATTERNS
DangerousPattern(tok) == tok.k = "text" /\ tok.a = "system("

ValidateSecurity(t, v) ==
    IF SelectSeq(t, DangerousPattern) # <<>>
    THEN [v EXCEPT !.errors = Append(@, Diag("Dangerous", "system\\s*\\(", 0, "", 0, ""))]
    ELSE v

\* line.count("'") - line.count("\\'"): every tag fragment holds an even number
\* of single quotes, and no fragment holds a double quote.
SingleQuote(tok) == tok.k = "text" /\ tok.a = "'"

RECURSIVE StringLines(_, _, _)
StringLines(lines, n, errs) ==
    IF n > Len(lines) THEN errs
    ELSE StringLines(lines, n + 1,
            IF Len(SelectSeq(lines[n], SingleQuote)) % 2 # 0
            THEN Append(errs, Diag("UnmatchedSingleQuotes", "", n, "", 0, ""))
            ELSE errs)

ValidateStrings(t, v) == [v EXCEPT !.errors = StringLines(SplitLines(t), 1, @)]

OUTPUT_EMPTY_REGEX(tok) == tok.k = "text" /\ tok.a = "{{ }}"

ValidateOutput(t, v) ==
    IF SelectSeq(t, OUTPUT_EMPTY_REGEX) # <<>>
    THEN [v EXCEPT !.warnings = Append(@, Diag("EmptyOutput", "", Len(SelectSeq(t, OUTPUT_EMPTY_REGEX)),
                                              "", 0, ""))]
    ELSE v

\* No fragment holds "{{ name }}", and required_vars is empty.
ValidateVariables(t, v) == v

\* No fragment holds "|".
ValidateFilters(t, v) == v

\* The condition of "{% if x %}" is a single word.
ValidateExpressions(t, v) == v

\* No fragment holds ".".
ValidateObjects(t, v) == v

\* The only dash, in "{%- include", is followed by a blank.
ValidateWhitespaceControl(t, v) == v

\* No fragment holds "{% assign".
ValidateAssignments(t, v) == v

----------------------------------------------------------------------------
(* 11. INCLUDE VALIDATION: _validate_includes *)

\* INCLUDE_REGEX, with its optional dash
INCLUDE_REGEX(tok) == tok.k \in {"include", "dinclude"}

ROOT == Plain("ROOT")

\* A path that is white space only: include_path.strip() is empty.
BlankPath == Plain(" ")

\* include_path.split('/'): where the last part starts (0: there is one part)
LastOf(slashes) ==
    IF slashes = {} THEN 0 ELSE CHOOSE i \in slashes : \A j \in slashes : j <= i

LastSlash(path) == LastOf({i \in 1..Len(path) : path[i] = "/"})

\* if not file_name.startswith('_'): file_name = f"_{file_name}"
WithUnderscore(file_name) ==
    IF file_name # <<>> /\ file_name[1] = "_" THEN file_name ELSE <<"_">> \o file_name

\* if not file_name.endswith('.liquid'): file_name = f"{file_name}.liquid"
WithExtension(file_name) ==
    IF file_name[Len(file_name)] = ".liquid" THEN file_name
    ELSE Append(file_name, ".liquid")

\* blob_path, from the parts before position cut and the file name
BlobPath(include_path, source_type, cut, file_name) ==
    IF cut > 0
    THEN <<source_type, "/">> \o SubSeq(include_path, 1, cut - 1) \o <<"/">> \o file_name
    ELSE <<source_type, "/">> \o file_name

\* parts[-1]
LastPart(include_path, cut) == SubSeq(include_path, cut + 1, Len(include_path))

ConvertFrom(include_path, source_type, cut) ==
    BlobPath(include_path, source_type, cut,
             WithExtension(WithUnderscore(LastPart(include_path, cut))))

ConvertAlwaysPrefixes(include_path, source_type) ==
    BlobPath(include_path, source_type, LastSlash(include_path),
             WithExtension(<<"_">> \o LastPart(include_path, LastSlash(include_path))))

ConvertIncludeToBlobPath(include_path, source_type) ==
    ConvertFrom(include_path, source_type, LastSlash(include_path))

PathDiag(kind, n, path, blob) ==
    [Diag(kind, "", n, "", 0, "") EXCEPT !.p = path, !.q = blob]

IncludeMatchWithoutNamespace(tok, n, c, e, v) ==
    LET include_path == tok.p
    IN  IF include_path = BlankPath
        THEN [v EXCEPT !.errors = Append(@, Diag("EmptyIncludePath", "", n, "", 0, ""))]
        ELSE IF c.blob_service /\ e.oracle_raises
        THEN [v EXCEPT !.exc = "OracleError",
                       !.asked = Append(@, ConvertIncludeToBlobPath(include_path,
                                                                    c.source_type))]
        ELSE LET blob_path == ConvertIncludeToBlobPath(include_path, c.source_type)
                 missing == c.blob_service /\ blob_path \notin e.blobs
             IN  [v EXCEPT
                    !.errors = IF missing
                               THEN Append(@, PathDiag("IncludeNotFound", n,
                                                       include_path, blob_path))
                               ELSE @,
                    !.asked = IF c.blob_service THEN Append(@, blob_path) ELSE @,
                    !.include_graph = @ \cup {include_path}]

IncludeMatchAsksOncePerPath(tok, n, c, e, v) ==
    LET include_path == tok.p
    IN  IF include_path = BlankPath
        THEN [v EXCEPT !.errors = Append(@, Diag("EmptyIncludePath", "", n, "", 0, ""))]
        ELSE IF c.blob_service /\ c.source_type # "" /\ e.oracle_raises
        THEN [v EXCEPT !.exc = "OracleError",
                       !.asked = Append(@, ConvertIncludeToBlobPath(include_path,
                                                                    c.source_type))]
        ELSE LET blob_path == ConvertIncludeToBlobPath(include_path, c.source_type)
                 missing == c.blob_service /\ c.source_type # "" /\ blob_path \notin e.blobs
             IN  [v EXCEPT
                    !.errors = IF missing
                               THEN Append(@, PathDiag("IncludeNotFound", n,
                                                       include_path, blob_path))
                               ELSE @,
                    !.asked = IF /\ c.blob_service /\ c.source_type # ""
                                 /\ include_path \notin v.include_graph
                              THEN Append(@, blob_path) ELSE @,
                    !.include_graph = @ \cup {include_path}]

\* The body of the inner loop for one match
IncludeMatch(tok, n, c, e, v) ==
    LET include_path == tok.p
    IN  IF include_path = BlankPath
        THEN [v EXCEPT !.errors = Append(@, Diag("EmptyIncludePath", "", n, "", 0, ""))]
        ELSE IF c.blob_service /\ c.source_type # "" /\ e.oracle_raises
        THEN [v EXCEPT !.exc = "OracleError",
                       !.asked = Append(@, ConvertIncludeToBlobPath(include_path,
                                                                    c.source_type))]
        ELSE LET blob_path == ConvertIncludeToBlobPath(include_path, c.source_type)
                 missing == c.blob_service /\ c.source_type # "" /\ blob_path \notin e.blobs
             IN  [v EXCEPT
                    !.errors = IF missing
                               THEN Append(@, PathDiag("IncludeNotFound", n,
                                                       include_path, blob_path))
                               ELSE @,
                    !.asked = IF c.blob_service /\ c.source_type # ""
                              THEN Append(@, blob_path) ELSE @,
                    !.include_graph = @ \cup {include_path}]

RECURSIVE IncludeMatches(_, _, _, _, _)
IncludeMatches(ms, n, c, e, v) ==
    IF ms = <<>> \/ v.exc # "" THEN v
    ELSE IncludeMatches(Tail(ms), n, c, e, IncludeMatch(Head(ms), n, c, e, v))

RECURSIVE IncludeLines(_, _, _, _, _)
IncludeLines(lines, n, c, e, v) ==
    IF n > Len(lines) \/ v.exc # "" THEN v
    ELSE IncludeLines(lines, n + 1, c, e,
            IncludeMatches(SelectSeq(lines[n], INCLUDE_REGEX), n, c, e, v))

\* self.include_graph.get(node, []): "ROOT" is the only key
Children(graph, node) == IF node = ROOT THEN graph ELSE {}

\* d = [visited, stack, errors]
RECURSIVE Dfs(_, _, _)
RECURSIVE DfsChildren(_, _, _)
Dfs(graph, node, d) ==
    IF node \in d.stack
    THEN [d EXCEPT !.errors = Append(@, PathDiag("CircularInclude", 0, node, <<>>))]
    ELSE IF node \in d.visited THEN d
    ELSE LET d1 == [d EXCEPT !.visited = @ \cup {node}, !.stack = @ \cup {node}]
             d2 == DfsChildren(graph, Children(graph, node), d1)
         IN  [d2 EXCEPT !.stack = @ \ {node}]

DfsChildren(graph, cs, d) ==
    IF cs = {} THEN d
    ELSE LET child == CHOOSE x \in cs : TRUE
         IN  DfsChildren(graph, cs \ {child}, Dfs(graph, child, d))

ValidateCircularIncludes(v) ==
    [v EXCEPT !.errors =
        Dfs(v.include_graph, ROOT, [visited |-> {}, stack |-> {}, errors |-> @]).errors]

ValidateIncludes(t, c, e, v) ==
    LET v1 == IncludeLines(SplitLines(t), 1, c, e, v)
    IN  IF v1.exc # "" THEN v1 ELSE ValidateCircularIncludes(v1)

----------------------------------------------------------------------------
(* validate(): one action per pass, in the order of the calls *)

Fields == [errors |-> errors, warnings |-> warnings,
           include_graph |-> include_graph, exc |-> "",
           asked |-> env.asked, parsed |-> env.parsed]

\* The pass that runs at position at, applied to the instance's fields.
Pass(at, t, c, e, v) ==
    CASE at = "encoding" -> ValidateEncoding(t, v)
      [] at = "size" -> ValidateTemplateSize(t, v)
      [] at = "empty_content" -> ValidateEmptyContent(t, v)
      [] at = "syntax" -> ValidateSyntax(t, e.parse, v)
      [] at = "tags" -> ValidateTags(t, v)
      [] at = "tag_keywords" -> ValidateTagKeywords(t, v)
      [] at = "variables" -> ValidateVariables(t, v)
      [] at = "security" -> ValidateSecurity(t, v)
      [] at = "filters" -> ValidateFilters(t, v)
      [] at = "expressions" -> ValidateExpressions(t, v)
      [] at = "control_flow" -> ValidateControlFlow(t, v)
      [] at = "objects" -> ValidateObjects(t, v)
      [] at = "strings" -> ValidateStrings(t, v)
      [] at = "comments" -> ValidateComments(t, v)
      [] at = "whitespace_control" -> ValidateWhitespaceControl(t, v)
      [] at = "includes" -> ValidateIncludes(t, c, e, v)
      [] at = "assignments" -> ValidateAssignments(t, v)
      [] at = "output" -> ValidateOutput(t, v)
      [] at = "performance" -> ValidatePerformance(t, v)
      [] at = "fhir_specific" -> ValidateFhirSpecific(t, v)
      [] at = "fhir_dependencies" -> ValidateFhirDependencies(t, v)

AfterWithoutFlag(at, c) ==
    CASE at = "encoding" -> "size"
      [] at = "size" -> "empty_content"
      [] at = "empty_content" -> "syntax"
      [] at = "syntax" -> "tags"
      [] at = "tags" -> "tag_keywords"
      [] at = "tag_keywords" -> "variables"
      [] at = "variables" -> "security"
      [] at = "security" -> "filters"
      [] at = "filters" -> "expressions"
      [] at = "expressions" -> "control_flow"
      [] at = "control_flow" -> "objects"
      [] at = "objects" -> "strings"
      [] at = "strings" -> "comments"
      [] at = "comments" -> "whitespace_control"
      [] at = "whitespace_control" -> "includes"
      [] at = "includes" -> "assignments"
      [] at = "assignments" -> "output"
      [] at = "output" -> "performance"
      [] at = "performance" -> "fhir_specific"
      [] at = "fhir_specific" -> "fhir_dependencies"
      [] at = "fhir_dependencies" -> "return"

\* The statement after the call at position at.
After(at, c) ==
    CASE at = "encoding" -> "size"
      [] at = "size" -> "empty_content"
      [] at = "empty_content" -> "syntax"
      [] at = "syntax" -> "tags"
      [] at = "tags" -> "tag_keywords"
      [] at = "tag_keywords" -> "variables"
      [] at = "variables" -> "security"
      [] at = "security" -> "filters"
      [] at = "filters" -> "expressions"
      [] at = "expressions" -> "control_flow"
      [] at = "control_flow" -> "objects"
      [] at = "objects" -> "strings"
      [] at = "strings" -> "comments"
      [] at = "comments" -> "whitespace_control"
      [] at = "whitespace_control" -> "includes"
      [] at = "includes" -> "assignments"
      [] at = "assignments" -> "output"
      [] at = "output" -> "performance"
      [] at = "performance" -> IF c.fhir_validation THEN "fhir_specific" ELSE "return"
      [] at = "fhir_specific" -> "fhir_dependencies"
      [] at = "fhir_dependencies" -> "return"

NoResult == [kind |-> "none", exc |-> "", valid |-> FALSE, errors |-> <<>>, warnings |-> <<>>]

ReturnedCleanOnly(errs, warns) ==
    [kind |-> "return", exc |-> "", valid |-> Len(errs) = 0 /\ Len(warns) = 0,
     errors |-> errs, warnings |-> warns]

\* The dict validate() returns.
Returned(errs, warns) ==
    [kind |-> "return", exc |-> "", valid |-> Len(errs) = 0, errors |-> errs,
     warnings |-> warns]

\* An exception leaves validate(): nothing is returned.
Raised(exc) == [NoResult EXCEPT !.kind = "raise", !.exc = exc]

\* validate() from the pass at position at on, on an instance whose fields are v.
RECURSIVE Run(_, _, _, _, _)
Run(at, t, c, e, v) ==
    IF at = "return" THEN Returned(v.errors, v.warnings)
    ELSE LET v1 == Pass(at, t, c, e, v)
         IN  IF v1.exc # "" THEN Raised(v1.exc) ELSE Run(After(at, c), t, c, e, v1)

\* validate(t) on an instance whose include graph is graph.
ValidateOn(graph, t, c, e) ==
    Run("encoding", t, c, e,
        [errors |-> <<>>, warnings |-> <<>>, include_graph |-> graph, exc |-> "",
         asked |-> <<>>, parsed |-> 0])

\* The dict of an earlier call that the caller still holds.  Its "errors" and
\* "warnings" are the list objects self.errors and self.warnings referred to when
\* it was built (obj); while the instance still refers to them (live), what a
\* pass appends shows in the dict.  was is the dict as it was returned.
NoKept == [obj |-> NoResult, was |-> NoResult, live |-> FALSE]

Keep(r) == [obj |-> r, was |-> r, live |-> r.kind = "return"]

Aliased(k, v) ==
    IF k.live THEN [k EXCEPT !.obj.errors = v.errors, !.obj.warnings = v.warnings]
    ELSE k

ClearInPlace(k) ==
    IF k.live THEN [k EXCEPT !.obj.errors = <<>>, !.obj.warnings = <<>>] ELSE k

\* self.errors = []; self.warnings = []: the instance refers to two new lists.
Rebind(k) == [k EXCEPT !.live = FALSE]

\* No second thread is calling.
NoOther == [pc |-> "idle", text |-> <<>>, result |-> NoResult]

\* One call of the pipeline: the pass at pc runs to its end, or raises.
Step(at) ==
    /\ LET v == Pass(at, text, cfg, env, Fields)
       IN  /\ errors' = v.errors
           /\ warnings' = v.warnings
           /\ include_graph' = v.include_graph
           /\ pc' = IF v.exc = "" THEN After(at, cfg) ELSE "raised"
           /\ result' = IF v.exc = "" THEN result ELSE Raised(v.exc)
           /\ kept' = Aliased(kept, v)
           /\ env' = [env EXCEPT !.asked = v.asked, !.parsed = v.parsed]
    /\ UNCHANGED <<cfg, text, stack, case_stack, line_number, todo, other>>

MaxItems == 2

PathA == Plain("A")

Vocab ==
    { Tok("text", "hello"), Tok("text", "resourceType"), NL, Tok("surrogate", ""),
      Inc("include", PathA), Inc("include", ROOT) }

SeqsUpTo(V, n) == UNION {[1..k -> V] : k \in 0..n}

Texts == SeqsUpTo(Vocab, MaxItems)

SourceType == "HL7"

Configs ==
    [fhir_validation : BOOLEAN, blob_service : BOOLEAN, source_type : {"", SourceType}]

BlobKeys == {ConvertIncludeToBlobPath(path, SourceType) : path \in {PathA, ROOT}}

\* What the collaborators answer during one call: the blobs the oracle finds (or
\* that it raises), and what the Liquid parser does with the text.
Envs ==
    [blobs : {{}, BlobKeys}, oracle_raises : {FALSE}, parse : {"ok", "error", "unknown"},
     asked : {<<>>}, parsed : {0}]
      \cup [blobs : {{}}, oracle_raises : {TRUE}, parse : {"ok"}, asked : {<<>>}, parsed : {0}]

NoEnv ==
    [blobs |-> {}, oracle_raises |-> FALSE, parse |-> "ok", asked |-> <<>>, parsed |-> 0]

NoLocals ==
    /\ stack = <<>>
    /\ case_stack = <<>>
    /\ line_number = 0
    /\ todo = <<>>
    /\ kept = NoKept
    /\ other = NoOther

\* __init__
Init ==
    /\ cfg \in Configs
    /\ errors = <<>>
    /\ warnings = <<>>
    /\ include_graph = {}
    /\ text = <<>>
    /\ env = NoEnv
    /\ pc = "idle"
    /\ result = NoResult
    /\ NoLocals

\* validate(t) is called by a caller who holds k: the two lists are replaced by
\* new ones.
Call(t, e, k) ==
    /\ text' = t
    /\ env' = [e EXCEPT !.asked = <<>>, !.parsed = 0]
    /\ errors' = <<>>
    /\ warnings' = <<>>
    /\ kept' = Rebind(k)
    /\ pc' = "encoding"
    /\ result' = NoResult
    /\ UNCHANGED <<cfg, include_graph, stack, case_stack, line_number, todo, other>>

Validate ==
    /\ pc = "idle"
    /\ \E t \in Texts, e \in Envs : Call(t, e, kept)

Encoding ==
    /\ pc = "encoding"
    /\ Step("encoding")

Size ==
    /\ pc = "size"
    /\ Step("size")

EmptyContent ==
    /\ pc = "empty_content"
    /\ Step("empty_content")

Syntax ==
    /\ pc = "syntax"
    /\ Step("syntax")

Tags ==
    /\ pc = "tags"
    /\ Step("tags")

TagKeywords ==
    /\ pc = "tag_keywords"
    /\ Step("tag_keywords")

Variables ==
    /\ pc = "variables"
    /\ Step("variables")

Security ==
    /\ pc = "security"
    /\ Step("security")

Filters ==
    /\ pc = "filters"
    /\ Step("filters")

Expressions ==
    /\ pc = "expressions"
    /\ Step("expressions")

ControlFlow ==
    /\ pc = "control_flow"
    /\ Step("control_flow")

Objects ==
    /\ pc = "objects"
    /\ Step("objects")

Strings ==
    /\ pc = "strings"
    /\ Step("strings")

Comments ==
    /\ pc = "comments"
    /\ Step("comments")

WhitespaceControl ==
    /\ pc = "whitespace_control"
    /\ Step("whitespace_control")

Includes ==
    /\ pc = "includes"
    /\ Step("includes")

Assignments ==
    /\ pc = "assignments"
    /\ Step("assignments")

Output ==
    /\ pc = "output"
    /\ Step("output")

Performance ==
    /\ pc = "performance"
    /\ Step("performance")

FhirSpecific ==
    /\ pc = "fhir_specific"
    /\ Step("fhir_specific")

FhirDependencies ==
    /\ pc = "fhir_dependencies"
    /\ Step("fhir_dependencies")

Return ==
    /\ pc = "return"
    /\ result' = Returned(errors, warnings)
    /\ pc' = "returned"
    /\ UNCHANGED <<cfg, errors, warnings, include_graph, text, env,
                   stack, case_stack, line_number, todo, kept, other>>

\* The caller is done with what the call returned or raised; the instance and
\* its fields stay.
Finish ==
    /\ pc \in {"returned", "raised"}
    /\ pc' = "idle"
    /\ text' = <<>>
    /\ env' = NoEnv
    /\ result' = NoResult
    /\ kept' = NoKept
    /\ UNCHANGED <<cfg, errors, warnings, include_graph,
                   stack, case_stack, line_number, todo, other>>

Next ==
    \/ Validate
    \/ Encoding \/ Size \/ EmptyContent \/ Syntax \/ Tags \/ TagKeywords
    \/ Variables \/ Security
    \/ Filters \/ Expressions \/ ControlFlow \/ Objects \/ Strings \/ Comments
    \/ WhitespaceControl \/ Includes \/ Assignments \/ Output \/ Performance
    \/ FhirSpecific \/ FhirDependencies
    \/ Return
    \/ Finish

Spec == Init /\ [][Next]_vars

----------------------------------------------------------------------------
(* One pass run alone on bounded texts *)

NoConfig == [fhir_validation |-> TRUE, blob_service |-> FALSE, source_type |-> ""]

InitPass(texts, at) ==
    /\ text \in texts
    /\ cfg = NoConfig
    /\ env = NoEnv
    /\ errors = <<>>
    /\ warnings = <<>>
    /\ include_graph = {}
    /\ pc = at
    /\ result = NoResult
    /\ NoLocals

(* The tag pass, one regex match at a time *)

MaxTagItems == 5

TagVocabs ==
    { {Tok("open", "if"), Tok("close", "endif"), Tok("open", "for"),
       Tok("close", "endfor"), NL},
      {Tok("open", "if"), Tok("close", "endif"), Tok("mid", "else"),
       Tok("text", "hello"), NL},
      {Tok("open", "case"), Tok("when", ""), Tok("close", "endcase"),
       Tok("close", "endif"), NL},
      {Tok("open", "for"), Tok("open", "case"), Tok("mid", "else"),
       Tok("mid", "elseif"), NL} }

TagTexts == UNION {SeqsUpTo(V, MaxTagItems) : V \in TagVocabs}

InitTags == InitPass(TagTexts, "tags")

TagState ==
    [stack |-> stack, case_stack |-> case_stack, errors |-> errors, warnings |-> warnings]

\* for line_number, line in enumerate(lines, start=1): the depth check and the
\* four finditer calls of the next line.
TagsLine ==
    /\ pc = "tags"
    /\ todo = <<>>
    /\ line_number < Len(SplitLines(text))
    /\ line_number' = line_number + 1
    /\ warnings' = DepthCheck(TagState, line_number + 1).warnings
    /\ todo' = LineMatches(SplitLines(text)[line_number + 1])
    /\ UNCHANGED <<cfg, errors, include_graph, text, env, pc, result, stack, case_stack,
                   kept, other>>

\* One iteration of one of the four loops over a line's matches.
TagsMatch ==
    /\ pc = "tags"
    /\ todo # <<>>
    /\ LET s == OnMatch(TagState, Head(todo), line_number)
       IN  /\ stack' = s.stack
           /\ case_stack' = s.case_stack
           /\ errors' = s.errors
           /\ warnings' = s.warnings
    /\ todo' = Tail(todo)
    /\ UNCHANGED <<cfg, include_graph, text, env, pc, result, line_number, kept, other>>

\* The loop over the frames left on the stack, after the last line.
TagsEnd ==
    /\ pc = "tags"
    /\ todo = <<>>
    /\ line_number = Len(SplitLines(text))
    /\ errors' = errors \o Unclosed(stack)
    /\ pc' = "tagsdone"
    /\ UNCHANGED <<cfg, warnings, include_graph, text, env, result,
                   stack, case_stack, line_number, todo, kept, other>>

NextTags == TagsLine \/ TagsMatch \/ TagsEnd

SpecTags == InitTags /\ [][NextTags]_vars

(* The two FHIR passes *)

MaxFhirItems == 4

FhirVocab ==
    { Tok("evaluate", "Patient"), Tok("evaluate", "ID/Bundle"),
      Inc("include", PathA), Inc("dinclude", PathA),
      Tok("text", "resourceType"), Tok("comment", ""), NL }

FhirTexts == SeqsUpTo(FhirVocab, MaxFhirItems)

InitFhir == InitPass(FhirTexts, "fhir_specific")

NextFhir == FhirSpecific \/ FhirDependencies

SpecFhir == InitFhir /\ [][NextFhir]_vars

\* Texts of WindowLines lines: one evaluate, one include, plain words elsewhere.
WindowLines == 22

WindowText(e, i) ==
    [k \in 1..(2 * WindowLines) |->
        IF k % 2 = 0 THEN NL
        ELSE IF (k + 1) \div 2 = e THEN Tok("evaluate", "Patient")
        ELSE IF (k + 1) \div 2 = i THEN Inc("include", PathA)
        ELSE Tok("text", "hello")]

WindowTexts ==
    {WindowText(e, i) : e \in 1..WindowLines, i \in 1..WindowLines}

InitWindow == InitPass(WindowTexts, "fhir_specific")

SpecWindow == InitWindow /\ [][NextFhir]_vars

----------------------------------------------------------------------------
(* Claims about validate() *)

\* C1: whatever validate() returns has valid equal to "errors is empty"; the
\* warnings play no part.
C1_ValidIffNoErrors ==
    result.kind = "return" => (result.valid <=> result.errors = <<>>)

C1_Witness ==
    /\ result.kind = "return"
    /\ result.valid
    /\ result.warnings # <<>>

\* C2: an exception of the include-existence oracle does not leave validate().
C2_OracleFailureCaught ==
    ~(result.kind = "raise" /\ result.exc = "OracleError")

IsUtf8Error(d) == d.kind = "Utf8Error"

\* C3: for a text that cannot be encoded as UTF-8 the call returns, with
\* valid = false and the UTF-8 encoding error among the errors; no exception
\* leaves it.
C3_UnencodableReturnsError ==
    (pc \in {"returned", "raised"} /\ SelectSeq(text, Surrogate) # <<>>) =>
        /\ result.kind = "return"
        /\ ~result.valid
        /\ SelectSeq(result.errors, IsUtf8Error) # <<>>

\* C10: what validate(t) returns or raises is what it returns or raises on a
\* validator just constructed with the same configuration, whatever was validated
\* on the instance before.
C10_IndependentOfEarlierCalls ==
    pc \in {"returned", "raised"} => result = ValidateOn({}, text, cfg, env)

----------------------------------------------------------------------------
(* Claims about the tag pass *)

IsBlockTag(tok) == tok.k \in {"open", "close"}

\* Textual pairing: reading the block tags in the order they are written, every
\* closer closes the innermost open block and is that block's closer.
RECURSIVE Nested(_, _)
Nested(tags, open) ==
    IF tags = <<>> THEN open = <<>>
    ELSE IF Head(tags).k = "open" THEN Nested(Tail(tags), Append(open, Head(tags).a))
    ELSE /\ open # <<>>
         /\ OPEN_TAGS[open[Len(open)]] = Head(tags).a
         /\ Nested(Tail(tags), Front(open))

CorrectlyPaired(t) ==
    /\ \A i \in 1..Len(t) : t[i].k \in {"open", "close", "text", "nl"}
    /\ Nested(SelectSeq(t, IsBlockTag), <<>>)

\* C4: a text whose block tags are all correctly paired and nested gets no error
\* from the tag-matching pass, however the tags are spread over the lines.
C4_BalancedNoErrors ==
    (pc = "tagsdone" /\ CorrectlyPaired(text)) => errors = <<>>

IsUnclosedDiag(d) == d.kind = "Unclosed"

UnclosedExample == <<Tok("open", "if"), Tok("text", "hello")>>

\* C5: when the pass ends, the unclosed-block errors are exactly one per frame left
\* on the stack, each with the frame's keyword, its line and the closer of the
\* mapping; "{% if x %}hello" gets exactly one error, endif at line 1.
C5_UnclosedPerFrame ==
    pc = "tagsdone" =>
        LET u == SelectSeq(errors, IsUnclosedDiag)
        IN  /\ Len(u) = Len(stack)
            /\ \A i \in 1..Len(stack) :
                  /\ u[i].a = stack[i].tag
                  /\ u[i].m = stack[i].line
                  /\ u[i].b = OPEN_TAGS[stack[i].tag]
            /\ text = UnclosedExample =>
                  errors = <<Diag("Unclosed", "if", 1, "endif", 0, "")>>

C5_Witness ==
    /\ pc = "tagsdone"
    /\ Len(stack) = 2
    /\ Len(SelectSeq(errors, IsUnclosedDiag)) = 2

MismatchExample == <<Tok("open", "if"), NL, Tok("close", "endfor")>>

\* C6: a closer that is not the closer of the frame on top of the stack pops that
\* frame and appends exactly one mismatched-block error (opening tag and line,
\* actual closer and line, expected closer); the popped frame is not reported as
\* unclosed: "{% if x %}\n{% endfor %}" gets exactly that one error.
C6_MismatchPopsOnce ==
    /\ [][(/\ pc = "tags" /\ todo # <<>> /\ Head(todo).k = "close"
           /\ stack # <<>>
           /\ Head(todo).a # OPEN_TAGS[stack[Len(stack)].tag])
          => (/\ stack' = Front(stack)
              /\ errors' = Append(errors,
                    Diag("Mismatched", stack[Len(stack)].tag, stack[Len(stack)].line,
                         Head(todo).a, line_number, OPEN_TAGS[stack[Len(stack)].tag])))]_vars
    /\ []((pc = "tagsdone" /\ text = MismatchExample) =>
            errors = <<Diag("Mismatched", "if", 1, "endfor", 2, "endif")>>)

C6_Witness ==
    /\ pc = "tagsdone"
    /\ text = MismatchExample
    /\ errors = <<Diag("Mismatched", "if", 1, "endfor", 2, "endif")>>
    /\ stack = <<>>

----------------------------------------------------------------------------
(* Claims about the FHIR passes *)

IsHardError(d) == d.kind = "EvaluateWithoutInclude"

\* C7: a template with an evaluate tag and no include tag gets exactly one
\* evaluate/include error; a template with an include tag, wherever it stands,
\* gets none.
C7_HardRule ==
    pc = "return" =>
        /\ (SelectSeq(text, EvaluateSearch) # <<>> /\ SelectSeq(text, INCLUDE_REGEX) = <<>>)
              => Len(SelectSeq(errors, IsHardError)) = 1
        /\ SelectSeq(text, INCLUDE_REGEX) # <<>> => Len(SelectSeq(errors, IsHardError)) = 0

\* C8: a template without include tag whose evaluate tags are all ID-only does
\* not get the evaluate/include error.
C8_IdOnlySkipsHardRule ==
    (/\ pc = "return"
     /\ SelectSeq(text, EvaluateSearch) # <<>>
     /\ SelectSeq(text, INCLUDE_REGEX) = <<>>
     /\ \A i \in 1..Len(text) : EvaluateSearch(text[i]) => IdOnlyPattern(text[i]))
    => Len(SelectSeq(errors, IsHardError)) = 0

Distance(a, b) == IF a >= b THEN a - b ELSE b - a

\* C9: where the windowed check runs, an evaluate that is not ID-only is left
\* without warning iff a line at most 20 lines before or after it, not its own,
\* not blank and without the word comment, has an include tag.
C9_SymmetricWindow ==
    (pc = "return" /\ Len(SelectSeq(errors, IsHardError)) = 0) =>
        LET lines == SplitLines(text)
        IN  \A n \in 1..Len(lines) :
                (SelectSeq(lines[n], EvaluatePattern) # <<>> /\ SelectSeq(lines[n], IdOnlyPattern) = <<>>) =>
                    ((\A i \in 1..Len(warnings) :
                          ~(warnings[i].kind = "EvaluateNoInclude" /\ warnings[i].m = n))
                     <=> (\E j \in 1..Len(lines) :
                            /\ j # n
                            /\ Distance(j, n) <= 20
                            /\ lines[j] # <<>>
                            /\ SelectSeq(lines[j], CommentWord) = <<>>
                            /\ SelectSeq(lines[j], INCLUDE_REGEX) # <<>>))

----------------------------------------------------------------------------
(* validate() called twice in a row *)

\* The caller keeps the dict it got and calls validate() again with the same
\* text; the collaborators answer as they did.
ValidateAgain ==
    /\ pc \in {"returned", "raised"}
    /\ kept = NoKept
    /\ Call(text, env, Keep(result))

\* The caller is done with both results.
FinishSecond ==
    /\ kept # NoKept
    /\ Finish

NextTwice ==
    \/ Validate
    \/ Encoding \/ Size \/ EmptyContent \/ Syntax \/ Tags \/ TagKeywords
    \/ Variables \/ Security
    \/ Filters \/ Expressions \/ ControlFlow \/ Objects \/ Strings \/ Comments
    \/ WhitespaceControl \/ Includes \/ Assignments \/ Output \/ Performance
    \/ FhirSpecific \/ FhirDependencies
    \/ Return
    \/ ValidateAgain
    \/ FinishSecond

SpecTwice == Init /\ [][NextTwice]_vars

\* C11: the second of two calls in a row with the same text, configuration and
\* oracle answers ends as the first did (same valid, errors and warnings), and
\* the dict the first call returned is at every moment what it was when returned.
C11_Idempotent ==
    /\ kept.obj = kept.was
    /\ (pc \in {"returned", "raised"} /\ kept # NoKept) => result = kept.was

C11_Witness ==
    /\ pc = "returned"
    /\ kept.was.kind = "return"
    /\ result.errors # <<>>
    /\ result.warnings # <<>>
    /\ result = kept.obj

----------------------------------------------------------------------------
(* Two threads call validate() on the same instance; a thread switch happens *)
(* between two passes                                                        *)

MaxThreadItems == 1

ThreadVocab == {Tok("text", "hello"), Tok("text", "system(")}

ThreadTexts == SeqsUpTo(ThreadVocab, MaxThreadItems)

PassNames ==
    {"encoding", "size", "empty_content", "syntax", "tags", "tag_keywords",
     "variables", "security", "filters", "expressions", "control_flow", "objects",
     "strings", "comments", "whitespace_control", "includes", "assignments",
     "output", "performance", "fhir_specific", "fhir_dependencies"}

InitThreads ==
    /\ Init
    /\ ~cfg.blob_service
    /\ cfg.source_type = ""

\* The first thread calls validate().
ThreadValidate ==
    /\ pc = "idle"
    /\ \E t \in ThreadTexts : Call(t, NoEnv, kept)

\* The second thread calls validate(): the same two fields are replaced.
OtherValidate ==
    /\ other.pc = "idle"
    /\ \E t \in ThreadTexts : other' = [pc |-> "encoding", text |-> t, result |-> NoResult]
    /\ errors' = <<>>
    /\ warnings' = <<>>
    /\ kept' = Rebind(kept)
    /\ UNCHANGED <<cfg, include_graph, text, env, pc, result,
                   stack, case_stack, line_number, todo>>

\* The second thread runs its next pass, on the fields of the instance.
OtherPass ==
    /\ other.pc \in PassNames
    /\ LET v == Pass(other.pc, other.text, cfg, env, Fields)
       IN  /\ errors' = v.errors
           /\ warnings' = v.warnings
           /\ include_graph' = v.include_graph
           /\ kept' = Aliased(kept, v)
           /\ env' = [env EXCEPT !.asked = v.asked, !.parsed = v.parsed]
           /\ other' = [other EXCEPT
                           !.pc = IF v.exc = "" THEN After(other.pc, cfg) ELSE "raised",
                           !.result = IF v.exc = "" THEN @ ELSE Raised(v.exc)]
    /\ UNCHANGED <<cfg, text, pc, result, stack, case_stack, line_number, todo>>

OtherReturn ==
    /\ other.pc = "return"
    /\ other' = [other EXCEPT !.pc = "returned", !.result = Returned(errors, warnings)]
    /\ UNCHANGED <<cfg, errors, warnings, include_graph, text, env, pc, result,
                   stack, case_stack, line_number, todo, kept>>

NextThreads ==
    \/ ThreadValidate
    \/ Encoding \/ Size \/ EmptyContent \/ Syntax \/ Tags \/ TagKeywords
    \/ Variables \/ Security
    \/ Filters \/ Expressions \/ ControlFlow \/ Objects \/ Strings \/ Comments
    \/ WhitespaceControl \/ Includes \/ Assignments \/ Output \/ Performance
    \/ FhirSpecific \/ FhirDependencies
    \/ Return
    \/ OtherValidate
    \/ OtherPass
    \/ OtherReturn

SpecThreads == InitThreads /\ [][NextThreads]_vars

\* C12: when two calls on one instance interleave, each returns the errors and
\* warnings of its own template: what it returns when it runs alone.
C12_NoSharingAcrossCalls ==
    /\ pc = "returned" => result = ValidateOn({}, text, cfg, NoEnv)
    /\ other.pc = "returned" => other.result = ValidateOn({}, other.text, cfg, NoEnv)

----------------------------------------------------------------------------
(* validate() of a new instance with the default arguments, on templates of *)
(* comment tags and plain words                                             *)

MaxCommentItems == 5

CommentExample ==
    <<Tok("comment", ""), NL, Tok("text", "TODO"), NL, Tok("endcomment", "")>>

CommentVocab == {Tok("comment", ""), Tok("endcomment", ""), Tok("text", "TODO"), NL}

CommentTexts == SeqsUpTo(CommentVocab, MaxCommentItems)

InitComment == InitPass(CommentTexts, "encoding")

NextComment ==
    \/ Encoding \/ Size \/ EmptyContent \/ Syntax \/ Tags \/ TagKeywords
    \/ Variables \/ Security
    \/ Filters \/ Expressions \/ ControlFlow \/ Objects \/ Strings \/ Comments
    \/ WhitespaceControl \/ Includes \/ Assignments \/ Output \/ Performance
    \/ FhirSpecific \/ FhirDependencies
    \/ Return

SpecComment == InitComment /\ [][NextComment]_vars

\* C13: with the default configuration, "{% comment %}\nTODO\n{% endcomment %}"
\* is valid, with no error and no warning.
C13_CommentOnlyClean ==
    (pc = "returned" /\ text = CommentExample) =>
        /\ result.valid
        /\ result.errors = <<>>
        /\ result.warnings = <<>>

----------------------------------------------------------------------------
(* Claims about the order of the passes *)

NonFhirOrder ==
    <<"encoding", "size", "empty_content", "syntax", "tags", "tag_keywords",
      "variables", "security", "filters", "expressions", "control_flow", "objects",
      "strings", "comments", "whitespace_control", "includes", "assignments",
      "output", "performance">>

\* C14: every call runs the non-FHIR passes one after the other in the fixed
\* order, each once, then the two FHIR passes iff the flag is on, then returns;
\* whatever a pass found, the next one runs.
C14_AllPassesInOrder ==
    [][/\ \A i \in 1..(Len(NonFhirOrder) - 1) :
              pc = NonFhirOrder[i] => pc' = NonFhirOrder[i + 1]
       /\ pc = "performance" =>
              pc' = IF cfg.fhir_validation THEN "fhir_specific" ELSE "return"
       /\ pc = "fhir_specific" => pc' = "fhir_dependencies"
       /\ pc = "fhir_dependencies" => pc' = "return"
       /\ pc = "return" => pc' = "returned"]_vars

\* The line of a tag-matching error.  A mismatched-block error names two lines,
\* the line of the opening tag and the line of the closing tag.
OpeningLine(d) == d.m

ClosingLine(d) == IF d.kind = "Mismatched" THEN d.n ELSE d.m

\* C15: the errors of the tag-matching pass, the unclosed-block errors included,
\* stand in top-to-bottom order of their lines (whichever of its two lines a
\* mismatched-block error is ordered by).
C15_DiscoveryOrder ==
    pc = "tagsdone" =>
        \/ \A i, j \in 1..Len(errors) :
              i < j => OpeningLine(errors[i]) <= OpeningLine(errors[j])
        \/ \A i, j \in 1..Len(errors) :
              i < j => ClosingLine(errors[i]) <= ClosingLine(errors[j])

----------------------------------------------------------------------------
(* The include pass run alone *)

MaxIncludeItems == 3

IncludeVocab ==
    { Inc("include", PathA), Inc("include", ROOT), Inc("dinclude", PathA),
      Inc("include", BlankPath), NL }

IncludeTexts == SeqsUpTo(IncludeVocab, MaxIncludeItems)

\* The oracle finds any set of the keys, or raises.
IncludeEnvs ==
    [blobs : SUBSET BlobKeys, oracle_raises : {FALSE}, parse : {"ok"}, asked : {<<>>}, parsed : {0}]
      \cup [blobs : {{}}, oracle_raises : {TRUE}, parse : {"ok"}, asked : {<<>>}, parsed : {0}]

InitIncludes ==
    /\ text \in IncludeTexts
    /\ cfg \in Configs
    /\ env \in IncludeEnvs
    /\ errors = <<>>
    /\ warnings = <<>>
    /\ include_graph = {}
    /\ pc = "includes"
    /\ result = NoResult
    /\ NoLocals

NextIncludes == Includes

SpecIncludes == InitIncludes /\ [][NextIncludes]_vars

IsNotFound(d) == d.kind = "IncludeNotFound"

\* The line of the item at position i: one more than the line breaks before it.
LineOf(t, i) == 1 + Cardinality({j \in 1..(i - 1) : t[j] = NL})

Configured == cfg.blob_service /\ cfg.source_type # ""

\* The include occurrences with a non-blank path whose resolved key the oracle
\* does not find, in the order they are written.
MissingIncludes ==
    SelectSeq([i \in 1..Len(text) |-> i],
              LAMBDA i : /\ INCLUDE_REGEX(text[i])
                         /\ text[i].p # BlankPath
                         /\ ConvertIncludeToBlobPath(text[i].p, cfg.source_type)
                                \notin env.blobs)

\* C16: the include pass emits a file-not-found error, with the logical path and
\* the resolved key, for exactly the include occurrences with a non-blank path
\* whose key the oracle does not find, provided that oracle and namespace are
\* both configured; when one of them is not, the oracle is not called (an oracle
\* that raises goes unnoticed) and there is no file-not-found error.
C16_NotFoundIffMissing ==
    /\ (Configured /\ pc = "assignments") =>
          LET found == SelectSeq(errors, IsNotFound)
          IN  /\ Len(found) = Len(MissingIncludes)
              /\ \A k \in 1..Len(found) :
                    LET i == MissingIncludes[k]
                    IN  found[k] = PathDiag("IncludeNotFound", LineOf(text, i), text[i].p,
                                     ConvertIncludeToBlobPath(text[i].p, cfg.source_type))
    /\ (~Configured /\ pc # "includes") =>
          /\ pc = "assignments"
          /\ SelectSeq(errors, IsNotFound) = <<>>

C16_Witness ==
    /\ pc = "assignments"
    /\ Configured
    /\ Len(SelectSeq(errors, IsNotFound)) = 1
    /\ Len(SelectSeq(text, INCLUDE_REGEX)) = 3

----------------------------------------------------------------------------
(* The conversion of an include path to a blob path: the include pass run on *)
(* one include tag, with an oracle that finds nothing                        *)

MaxPathSymbols == 4

PathAlphabet == {"_", "/", ".liquid", "Resource", "Organization"}

IncludePaths == SeqsUpTo(PathAlphabet, MaxPathSymbols) \ {<<>>}

ConvertConfig == [fhir_validation |-> TRUE, blob_service |-> TRUE, source_type |-> SourceType]

InitConvert ==
    /\ text \in {<<Inc("include", path)>> : path \in IncludePaths}
    /\ cfg = ConvertConfig
    /\ env = NoEnv
    /\ errors = <<>>
    /\ warnings = <<>>
    /\ include_graph = {}
    /\ pc = "includes"
    /\ result = NoResult
    /\ NoLocals

NextConvert == Includes

SpecConvert == InitConvert /\ [][NextConvert]_vars

StartsWithUnderscore(s) == s # <<>> /\ s[1] = "_"

EndsWithLiquid(s) == s # <<>> /\ s[Len(s)] = ".liquid"

\* key is path by the stated rule: folder is the path up to its last "/", file
\* the rest.
ByRule(path, namespace, key) ==
    \E cut \in 0..Len(path) :
        LET folder == SubSeq(path, 1, cut)
            file == SubSeq(path, cut + 1, Len(path))
        IN  /\ cut > 0 => path[cut] = "/"
            /\ \A i \in 1..Len(file) : file[i] # "/"
            /\ key = <<namespace, "/">> \o folder
                        \o (IF StartsWithUnderscore(file) THEN <<>> ELSE <<"_">>)
                        \o file
                        \o (IF EndsWithLiquid(file) THEN <<>> ELSE <<".liquid">>)

\* path has a file name of the form "_name.liquid" that starts after position
\* cut; name has neither the prefix nor the extension.
DecoratedAt(path, cut) ==
    /\ cut > 0 => path[cut] = "/"
    /\ \A i \in (cut + 1)..Len(path) : path[i] # "/"
    /\ Len(path) - cut >= 2
    /\ path[cut + 1] = "_"
    /\ path[Len(path)] = ".liquid"
    /\ ~StartsWithUnderscore(SubSeq(path, cut + 2, Len(path) - 1))
    /\ ~EndsWithLiquid(SubSeq(path, cut + 2, Len(path) - 1))

\* The same path with the file name "name".
BareForm(path, cut) == SubSeq(path, 1, cut) \o SubSeq(path, cut + 2, Len(path) - 1)

\* C17: the key of every include path is the path converted by the stated rule;
\* Resource/Organization gives HL7/Resource/_Organization.liquid; every key
\* starts with the namespace and ends in .liquid; and a path whose file name is
\* already "_name.liquid" has the key of its bare form.
C17_ConversionRule ==
    pc = "assignments" =>
        LET path == text[1].p
            key == errors[1].q
        IN  /\ IsNotFound(errors[1])
            /\ ByRule(path, SourceType, key)
            /\ path = <<"Resource", "/", "Organization">> =>
                  key = <<"HL7", "/", "Resource", "/", "_", "Organization", ".liquid">>
            /\ key[1] = SourceType /\ key[2] = "/" /\ key[Len(key)] = ".liquid"
            /\ \A cut \in 0..Len(path) :
                  (DecoratedAt(path, cut) /\ BareForm(path, cut) # <<>>) =>
                      key = ConvertIncludeToBlobPath(BareForm(path, cut), SourceType)

C17_Witness ==
    /\ pc = "assignments"
    /\ text[1].p = <<"_", "Organization", ".liquid">>
    /\ errors[1].q = ConvertIncludeToBlobPath(<<"Organization">>, SourceType)
    /\ errors[1].q = <<"HL7", "/", "_", "Organization", ".liquid">>

----------------------------------------------------------------------------
(* Claims about the include graph *)

IsCircular(d) == d.kind = "CircularInclude"

\* C18: after the include pass of a new instance, no edge of the include graph
\* leads back to ROOT, and the traversal has reported no circular dependency,
\* whatever paths the template includes.
C18_FlatFanOut ==
    pc = "assignments" =>
        /\ ROOT \notin include_graph
        /\ SelectSeq(errors, IsCircular) = <<>>

----------------------------------------------------------------------------
(* The size pass run alone, on texts whose size and line count are near the *)
(* limits                                                                   *)

SizeSpread == 5

Pad(n) == [k |-> "pad", a |-> "", p |-> <<n>>]

Nls(n) == [k |-> "nls", a |-> "", p |-> <<n>>]

\* A text of size bytes in lines lines: a byte order mark (one character of
\* three bytes) or none, letters, then the line breaks.
SizeText(size, lines, bom) ==
    IF bom THEN <<Tok("bom", ""), Pad(size - lines - 3), Nls(lines)>>
    ELSE <<Pad(size - lines), Nls(lines)>>

SizeTexts ==
    { SizeText(size, lines, bom) :
        size \in (MAX_TEMPLATE_SIZE - SizeSpread)..(MAX_TEMPLATE_SIZE + SizeSpread),
        lines \in (MAX_LINE_COUNT - SizeSpread)..(MAX_LINE_COUNT + SizeSpread),
        bom \in BOOLEAN }

InitSize == InitPass(SizeTexts, "size")

NextSize == Size

SpecSize == InitSize /\ [][NextSize]_vars

IsSizeExceeded(d) == d.kind = "SizeExceeded"

IsLineCountExceeded(d) == d.kind = "LineCountExceeded"

\* C19: the size pass emits a size error, with the byte count and the limit, iff
\* the text has more than 1,048,576 bytes, and a line-count error iff it has more
\* than 10,000 lines.
C19_SizeLimits ==
    pc = "empty_content" =>
        LET lines == text[Len(text)].p[1]
            size == text[Len(text) - 1].p[1] + lines + (IF Len(text) = 3 THEN 3 ELSE 0)
        IN  /\ SelectSeq(errors, IsSizeExceeded) =
                  IF size > 1048576
                  THEN <<Diag("SizeExceeded", "", size, "", 1048576, "")>>
                  ELSE <<>>
            /\ Len(SelectSeq(errors, IsLineCountExceeded)) =
                  IF lines > 10000 THEN 1 ELSE 0
            /\ Len(errors) = Len(SelectSeq(errors, IsSizeExceeded))
                              + Len(SelectSeq(errors, IsLineCountExceeded))

C19_Witness ==
    /\ pc = "empty_content"
    /\ text = SizeText(1048576, 10001, TRUE)
    /\ Len(errors) = 1
    /\ IsLineCountExceeded(errors[1])

----------------------------------------------------------------------------
(* validate() of a new instance with the FHIR flag on or off, on templates *)
(* of evaluate and include tags                                            *)

FlagConfigs == [fhir_validation : BOOLEAN, blob_service : {FALSE}, source_type : {""}]

InitFlag ==
    /\ text \in FhirTexts
    /\ cfg \in FlagConfigs
    /\ env = NoEnv
    /\ errors = <<>>
    /\ warnings = <<>>
    /\ include_graph = {}
    /\ pc = "encoding"
    /\ result = NoResult
    /\ NoLocals

NextFlag ==
    \/ Encoding \/ Size \/ EmptyContent \/ Syntax \/ Tags \/ TagKeywords
    \/ Variables \/ Security
    \/ Filters \/ Expressions \/ ControlFlow \/ Objects \/ Strings \/ Comments
    \/ WhitespaceControl \/ Includes \/ Assignments \/ Output \/ Performance
    \/ FhirSpecific \/ FhirDependencies
    \/ Return

SpecFlag == InitFlag /\ [][NextFlag]_vars

\* The diagnostics of the two FHIR passes
IsFhirDiag(d) ==
    d.kind \in {"CustomTags", "NoResourceType", "EvaluateWithoutInclude", "EvaluateNoInclude"}

IsOtherDiag(d) == ~IsFhirDiag(d)

\* C20: with the flag off, what validate() returns holds no diagnostic of the
\* FHIR passes, and its errors and warnings are those the same call returns with
\* the flag on, the FHIR diagnostics left out.
C20_FlagGatesFhirOnly ==
    (pc = "returned" /\ ~cfg.fhir_validation) =>
        LET on == ValidateOn({}, text, [cfg EXCEPT !.fhir_validation = TRUE], env)
        IN  /\ SelectSeq(result.errors, IsFhirDiag) = <<>>
            /\ SelectSeq(result.warnings, IsFhirDiag) = <<>>
            /\ on.kind = "return"
            /\ result.errors = SelectSeq(on.errors, IsOtherDiag)
            /\ result.warnings = SelectSeq(on.warnings, IsOtherDiag)

C20_Witness ==
    /\ pc = "returned"
    /\ ~cfg.fhir_validation
    /\ result.errors # <<>>
    /\ SelectSeq(text, EvaluateSearch) # <<>>
    /\ SelectSeq(ValidateOn({}, text, [cfg EXCEPT !.fhir_validation = TRUE], env).errors,
                 IsFhirDiag) # <<>>

----------------------------------------------------------------------------
(* Claims about else, when and stray closers in the tag-matching pass *)

IsWithoutIf(d) == d.kind = "WithoutIf"

ElseInForExample == <<Tok("open", "for"), NL, Tok("mid", "else")>>

\* C21: handling an else or elseif tag appends one "used without preceding if or
\* unless" error iff the block stack is empty or its top frame is neither if nor
\* unless, and leaves the block stack and the case-stack as they are; no other
\* step adds such an error; an else on the line after an open for is an error.
C21_ElseNeedsIfOnTop ==
    /\ [][IF pc = "tags" /\ todo # <<>> /\ ELSIF_ELSE_REGEX(Head(todo))
          THEN /\ stack' = stack
               /\ case_stack' = case_stack
               /\ errors' =
                    IF stack = <<>> \/ stack[Len(stack)].tag \notin {"if", "unless"}
                    THEN Append(errors, Diag("WithoutIf", Head(todo).a, line_number,
                                             "", 0, ""))
                    ELSE errors
          ELSE SelectSeq(errors', IsWithoutIf) = SelectSeq(errors, IsWithoutIf)]_vars
    /\ []((pc = "tagsdone" /\ text = ElseInForExample) =>
            SelectSeq(errors, IsWithoutIf) = <<Diag("WithoutIf", "else", 2, "", 0, "")>>)

C21_Witness ==
    /\ pc = "tagsdone"
    /\ text = ElseInForExample
    /\ errors = <<Diag("WithoutIf", "else", 2, "", 0, ""),
                  Diag("Unclosed", "for", 1, "endfor", 0, "")>>

IsWhenOutsideCase(d) == d.kind = "WhenOutsideCase"

CaseWithoutWhen == <<Tok("open", "case"), NL, Tok("close", "endcase")>>

WhenExample == <<Tok("when", ""), NL, Tok("open", "case"), NL, Tok("when", "")>>

\* C22: handling a when tag appends one "used outside of case block" error iff
\* the case-stack is empty at that moment, and leaves the block stack and the
\* case-stack as they are; no other step adds such an error; a case block with
\* no when branch gets no error.
C22_WhenNeedsCase ==
    /\ [][IF pc = "tags" /\ todo # <<>> /\ WHEN_REGEX(Head(todo))
          THEN /\ stack' = stack
               /\ case_stack' = case_stack
               /\ errors' =
                    IF case_stack = <<>>
                    THEN Append(errors, Diag("WhenOutsideCase", "when", line_number,
                                             "", 0, ""))
                    ELSE errors
          ELSE SelectSeq(errors', IsWhenOutsideCase) = SelectSeq(errors, IsWhenOutsideCase)]_vars
    /\ []((pc = "tagsdone" /\ text = CaseWithoutWhen) => errors = <<>>)

C22_Witness ==
    /\ pc = "tagsdone"
    /\ text = WhenExample
    /\ errors = <<Diag("WhenOutsideCase", "when", 1, "", 0, ""),
                  Diag("Unclosed", "case", 2, "endcase", 0, "")>>

StrayCloserExample ==
    <<Tok("close", "endif"), NL, Tok("open", "if"), NL, Tok("close", "endif")>>

\* The state of the tag pass after the lines of a text, and the text without
\* its i-th item.
TagStateAfter(t) ==
    TagLines([stack |-> <<>>, case_stack |-> <<>>, errors |-> <<>>, warnings |-> <<>>],
             SplitLines(t), 1)

Without(t, i) == SubSeq(t, 1, i - 1) \o SubSeq(t, i + 1, Len(t))

AloneOnLine(t, i) ==
    /\ i = 1 \/ t[i - 1] = NL
    /\ i = Len(t) \/ t[i + 1] = NL

LineAt(t, i) == Len(SelectSeq(SubSeq(t, 1, i - 1), LAMBDA x : x = NL)) + 1

\* C23: handling a closing tag while the block stack is empty appends exactly one
\* "unexpected close" error and leaves the block stack and the case-stack as they
\* are; the errors of a text with such a closer on a line of its own are, that one
\* error apart, the errors of the text without the closer.
C23_StrayCloserIgnored ==
    /\ [][(/\ pc = "tags" /\ todo # <<>> /\ BLOCK_END_REGEX(Head(todo))
           /\ stack = <<>>)
          => (/\ stack' = stack
              /\ case_stack' = case_stack
              /\ errors' = Append(errors, Diag("Unexpected", Head(todo).a, line_number,
                                               "", 0, "")))]_vars
    /\ [](pc = "tagsdone" =>
            \A i \in 1..Len(text) :
                (/\ BLOCK_END_REGEX(text[i])
                 /\ AloneOnLine(text, i)
                 /\ TagStateAfter(SubSeq(text, 1, i - 1)).stack = <<>>)
                => SelectSeq(errors, LAMBDA d : ~(d.kind = "Unexpected"
                                                  /\ d.m = LineAt(text, i)))
                     = ValidateTags(Without(text, i),
                          [errors |-> <<>>, warnings |-> <<>>,
                           include_graph |-> {}, exc |-> "", asked |-> <<>>,
                           parsed |-> 0]).errors)

C23_Witness ==
    /\ pc = "tagsdone"
    /\ text = StrayCloserExample
    /\ errors = <<Diag("Unexpected", "endif", 1, "", 0, "")>>
    /\ stack = <<>>

----------------------------------------------------------------------------
(* The tag pass on deeply nested texts *)

MaxDepthItems == 4

\* MAX_NESTING_DEPTH lines, each opening one block
RECURSIVE OpenLines(_)
OpenLines(n) == IF n = 0 THEN <<>> ELSE <<Tok("open", "if"), NL>> \o OpenLines(n - 1)

DepthTexts ==
    {OpenLines(MAX_NESTING_DEPTH) \o tail :
        tail \in SeqsUpTo({Tok("open", "if"), Tok("close", "endif"), NL}, MaxDepthItems)}

InitDepth == InitPass(DepthTexts, "tags")

SpecDepth == InitDepth /\ [][NextTags]_vars

IsDeepNesting(d) == d.kind = "DeepNesting"

\* The greatest length the stack has while line n is handled: its length after
\* the lines before, plus the opening tags of line n.
DepthOnLine(lines, n) ==
    Len(TagLines([stack |-> <<>>, case_stack |-> <<>>, errors |-> <<>>, warnings |-> <<>>],
                 SubSeq(lines, 1, n - 1), 1).stack)
        + Len(SelectSeq(lines[n], BLOCK_START_REGEX))

\* C24: the tag-matching pass emits one deep-nesting warning, and no error, for
\* each line on which the block stack is deeper than MAX_NESTING_DEPTH, the last
\* line and a line whose own tags take the depth over the limit included.
C24_DeepNestingPerLine ==
    pc = "tagsdone" =>
        /\ SelectSeq(errors, IsDeepNesting) = <<>>
        /\ Len(SelectSeq(warnings, IsDeepNesting))
             = Cardinality({n \in 1..Len(SplitLines(text)) :
                               DepthOnLine(SplitLines(text), n) > MAX_NESTING_DEPTH})

----------------------------------------------------------------------------
(* The control-flow pass run alone *)

MaxControlItems == 4

ControlVocab ==
    {Tok("open", "for"), Tok("close", "endfor"), Tok("break", "break"), NL}

ControlTexts == SeqsUpTo(ControlVocab, MaxControlItems)

InitControl == InitPass(ControlTexts, "control_flow")

NextControl == ControlFlow

SpecControl == InitControl /\ [][NextControl]_vars

IsOutsideLoop(d) == d.kind = "OutsideLoop"

\* The for tags minus the endfor tags of a text, read in the order they are
\* written and never below zero.
RECURSIVE OpenFors(_, _)
OpenFors(t, open) ==
    IF t = <<>> THEN open
    ELSE OpenFors(Tail(t), IF ForSearch(Head(t)) THEN open + 1
                           ELSE IF EndforSearch(Head(t)) /\ open > 0 THEN open - 1
                           ELSE open)

RECURSIVE Concat(_)
Concat(lines) == IF lines = <<>> THEN <<>> ELSE Head(lines) \o Concat(Tail(lines))

\* C25: a line with a break or continue tag (and no for or endfor tag of its
\* own) gets an outside-loop error iff the for tags minus the endfor tags of the
\* lines before it, never below zero, is zero; a break on the line after a for
\* loop opened and closed on one line is an error.
C25_BreakNeedsOpenFor ==
    pc # "control_flow" =>
        \A n \in 1..Len(SplitLines(text)) :
            LET line == SplitLines(text)[n]
            IN  (/\ SelectSeq(line, BREAK_CONTINUE_REGEX) # <<>>
                 /\ SelectSeq(line, ForSearch) = <<>>
                 /\ SelectSeq(line, EndforSearch) = <<>>)
                => ((\E i \in 1..Len(errors) : IsOutsideLoop(errors[i]) /\ errors[i].m = n)
                    <=> OpenFors(Concat(SubSeq(SplitLines(text), 1, n - 1)), 0) = 0)

----------------------------------------------------------------------------
(* The calls of the include-existence oracle during one validate() *)

OracleConfigs == {c \in Configs : c.fhir_validation}

InitOracle ==
    /\ text \in IncludeTexts
    /\ cfg \in OracleConfigs
    /\ env \in IncludeEnvs
    /\ errors = <<>>
    /\ warnings = <<>>
    /\ include_graph = {}
    /\ pc = "encoding"
    /\ result = NoResult
    /\ NoLocals

NextOracle ==
    \/ Encoding \/ Size \/ EmptyContent \/ Syntax \/ Tags \/ TagKeywords
    \/ Variables \/ Security
    \/ Filters \/ Expressions \/ ControlFlow \/ Objects \/ Strings \/ Comments
    \/ WhitespaceControl \/ Includes \/ Assignments \/ Output \/ Performance
    \/ FhirSpecific \/ FhirDependencies
    \/ Return

SpecOracle == InitOracle /\ [][NextOracle]_vars

NonBlankInclude(tok) == INCLUDE_REGEX(tok) /\ tok.p # BlankPath

\* The keys of the include occurrences with a non-blank path, as written.
ExpectedKeys(t, source_type) ==
    [i \in 1..Len(SelectSeq(t, NonBlankInclude)) |->
        ConvertIncludeToBlobPath(SelectSeq(t, NonBlankInclude)[i].p, source_type)]

\* C26: with oracle and namespace configured, the include pass asks the oracle
\* for the key of every include occurrence with a non-blank path, once each, in
\* the order they are written and repeated paths included (an oracle that raises
\* ends the call at its first question); no other pass asks the oracle; a call
\* that returns has asked exactly those keys; the circular-dependency errors
\* come after every not-found error.
C26_OneQueryPerInclude ==
    /\ [][IF pc = "includes"
          THEN env'.asked =
                 IF ~Configured THEN <<>>
                 ELSE IF env.oracle_raises
                 THEN SubSeq(ExpectedKeys(text, cfg.source_type), 1,
                             Min(1, Len(ExpectedKeys(text, cfg.source_type))))
                 ELSE ExpectedKeys(text, cfg.source_type)
          ELSE env'.asked = env.asked]_vars
    /\ [](pc = "returned" =>
            /\ env.asked = IF Configured THEN ExpectedKeys(text, cfg.source_type) ELSE <<>>
            /\ \A i, j \in 1..Len(errors) :
                  (IsNotFound(errors[i]) /\ IsCircular(errors[j])) => i < j)

C26_Witness ==
    /\ pc = "returned"
    /\ Configured
    /\ text = <<Inc("include", PathA), Inc("include", BlankPath), Inc("dinclude", PathA)>>
    /\ env.asked = <<ConvertIncludeToBlobPath(PathA, SourceType),
                     ConvertIncludeToBlobPath(PathA, SourceType)>>

----------------------------------------------------------------------------
(* The Liquid parse step of the syntax pass *)

MaxParseItems == 3

ParseVocab ==
    {Tok("evaluate", "Patient"), Tok("text", "hello"), Tok("open", "if"), NL}

ParseTexts == SeqsUpTo(ParseVocab, MaxParseItems)

ParseEnvs == {e \in Envs : ~e.oracle_raises /\ e.blobs = {}}

InitParse ==
    /\ text \in ParseTexts
    /\ cfg = NoConfig
    /\ env \in ParseEnvs
    /\ errors = <<>>
    /\ warnings = <<>>
    /\ include_graph = {}
    /\ pc = "encoding"
    /\ result = NoResult
    /\ NoLocals

NextParse ==
    \/ Encoding \/ Size \/ EmptyContent \/ Syntax \/ Tags \/ TagKeywords
    \/ Variables \/ Security
    \/ Filters \/ Expressions \/ ControlFlow \/ Objects \/ Strings \/ Comments
    \/ WhitespaceControl \/ Includes \/ Assignments \/ Output \/ Performance
    \/ FhirSpecific \/ FhirDependencies
    \/ Return

SpecParse == InitParse /\ [][NextParse]_vars

IsParseError(d) == d.kind = "ParseError"

\* C27: the syntax pass calls the Liquid parser iff the text holds no custom tag;
\* when the call raises, the pass appends exactly one parse error unless the
\* message names something unknown, undefined or unregistered, and then nothing;
\* either way the tag pass runs next and the call returns; no other pass calls
\* the parser or appends a parse error.
C27_ParseIsBestEffort ==
    /\ [][IF pc = "syntax"
          THEN /\ env'.parsed =
                    IF SelectSeq(text, CustomTagLiteral) = <<>> THEN 1 ELSE 0
               /\ Len(SelectSeq(errors', IsParseError)) =
                    IF env'.parsed = 1 /\ env.parse = "error" THEN 1 ELSE 0
               /\ pc' = "tags"
          ELSE /\ env'.parsed = env.parsed
               /\ SelectSeq(errors', IsParseError) = SelectSeq(errors, IsParseError)]_vars
    /\ [](pc # "raised")
    /\ [](pc = "returned" =>
            Len(SelectSeq(result.errors, IsParseError)) =
               IF SelectSeq(text, CustomTagLiteral) = <<>> /\ env.parse = "error"
               THEN 1 ELSE 0)

C27_Witness ==
    /\ pc = "returned"
    /\ env.parse = "error"
    /\ env.parsed = 1
    /\ text = <<Tok("open", "if")>>
    /\ Len(SelectSeq(result.errors, IsParseError)) = 1
    /\ Len(result.errors) = 2

----------------------------------------------------------------------------
(* Claims about the two stacks and the two depth computations *)

IsCaseFrame(f) == f.tag = "case"

\* C28: at every point of the tag-matching pass the case-stack has as many
\* entries as the block stack has case frames, mismatched closes included.
C28_CaseStackMirrorsStack ==
    pc = "tags" => Len(case_stack) = Len(SelectSeq(stack, IsCaseFrame))

(* Whole calls on deeply nested texts, with or without a stray closer first *)

NestingTexts ==
    {head \o t : head \in {<<>>, <<Tok("close", "endif"), NL>>}, t \in DepthTexts}

InitNesting == InitPass(NestingTexts, "encoding")

NextNesting ==
    \/ Encoding \/ Size \/ EmptyContent \/ Syntax \/ Tags \/ TagKeywords
    \/ Variables \/ Security
    \/ Filters \/ Expressions \/ ControlFlow \/ Objects \/ Strings \/ Comments
    \/ WhitespaceControl \/ Includes \/ Assignments \/ Output \/ Performance
    \/ FhirSpecific \/ FhirDependencies
    \/ Return

SpecNesting == InitNesting /\ [][NextNesting]_vars

IsDeepNestingLevels(d) == d.kind = "DeepNestingLevels"

\* C29: when a call returns a deep-nesting warning of the tag-matching pass, it
\* also returns the deep-nesting warning of the performance pass.
C29_TagDepthImpliesCounterDepth ==
    (pc = "returned" /\ SelectSeq(result.warnings, IsDeepNesting) # <<>>)
        => SelectSeq(result.warnings, IsDeepNestingLevels) # <<>>

----------------------------------------------------------------------------
(* Claim about what counts as an include *)

\* The text with every "{%- include" written as "{% include".
Undashed(t) ==
    [i \in 1..Len(t) |-> IF t[i].k = "dinclude" THEN Inc("include", t[i].p) ELSE t[i]]

DashOnlyExample == <<Tok("evaluate", "Patient"), NL, Inc("dinclude", PathA)>>

\* C30: the FHIR passes treat the dash form of an include tag as the include pass
\* does: their errors and warnings are those of the same text with every include
\* tag in the plain form, so an evaluate tag with only dash-form include tags
\* does not get the evaluate/include error.
C30_DashIncludeCounts ==
    pc = "return" =>
        /\ errors = ValidateFhirDependencies(Undashed(text),
                        ValidateFhirSpecific(Undashed(text),
                            [errors |-> <<>>, warnings |-> <<>>, include_graph |-> {},
                             exc |-> "", asked |-> <<>>, parsed |-> 0])).errors
        /\ warnings = ValidateFhirDependencies(Undashed(text),
                        ValidateFhirSpecific(Undashed(text),
                            [errors |-> <<>>, warnings |-> <<>>, include_graph |-> {},
                             exc |-> "", asked |-> <<>>, parsed |-> 0])).warnings
        /\ text = DashOnlyExample => SelectSeq(errors, IsHardError) = <<>>

====
